---- MODULE Spec2Model ----
(***************************************************************************)
(* Account store and OTP issuance of the MFA code generator.               *)
(*                                                                         *)
(* The repository holds three servers over the same account record:        *)
(*   "mongo"  : src/server.js 1-322 (and its copy with the otpauth parser, *)
(*              src/server-backup.js 231-650), accounts in a MongoDB       *)
(*              collection behind the Mongoose schema src/models/Account.js*)
(*   "memory" : src/server.js 323-571, accounts in a process-local object  *)
(*   "backup" : src/server-backup.js 1-230, process-local object, TOTP and *)
(*              HOTP through generateOTP                                   *)
(* A run executes one of them (variable variant, fixed by Init).           *)
(*                                                                         *)
(* The handlers of "mongo" are async: a handler is split at the database   *)
(* operations it awaits, and requests of different clients interleave      *)
(* between them.  The handlers of "memory" and "backup" are synchronous:   *)
(* each is one atomic step of the Node event loop.                         *)
(*                                                                         *)
(* Library behaviour the handlers rely on (speakeasy, crypto, Mongoose) is *)
(* modelled as the handlers expect it: speakeasy throws on a secret that   *)
(* is not base32 or on a digest Node does not know, AES decryption throws  *)
(* on a malformed envelope or a wrong key, save() validates the schema and *)
(* the unique index rejects a second document with the same key.           *)
(***************************************************************************)
EXTENDS Integers, Sequences, FiniteSets, TLC

(* ------------------------------ bounds --------------------------------- *)

\* number of clients whose requests may be in flight at once
NumProcs == 2

\* an HOTP account issues codes until its counter reaches MaxCounter
MaxCounter == 3

\* longest label of a provisioning URI, in characters
MaxLabelLen == 3

(* --------------------------- JavaScript values ------------------------- *)

\* JS undefined for a string-valued or boolean-valued request field
NULL == "undefined"

\* JS undefined for a number-valued request field
NoNum == -1

Procs == 1..NumProcs

Keys == {"a", "b"}

Variants == {"mongo", "memory", "backup"}

\* secrets a client may send: two base32 strings, one that is base32 only
\* after normalizeBase32, and one that is not base32
S1 == "JBSWY3DP"
S2 == "MFRGGZDF"
SLOW == "jbsw y3dp"
BAD == "not-base32!"

\* !x for a string-valued field
FalsyStr(x) == x = NULL \/ x = ""

\* !x for a number-valued field
FalsyNum(x) == x = NoNum \/ x = 0

\* String.prototype.toLowerCase on the strings of the model
toLowerCase(s) ==
  CASE s = "SHA256" -> "sha256"
    [] s = "SHA1" -> "sha1"
    [] s = "MD5" -> "md5"
    [] s = "HOTP" -> "hotp"
    [] OTHER -> s

\* secret.replace(/\s+/g, '').toUpperCase()
normalizeBase32(s) ==
  CASE s = SLOW -> S1
    [] OTHER -> s

\* whether speakeasy's base32 decoding accepts the string
IsBase32(s) == s \in {S1, S2}

\* digests crypto.createHmac knows; an unknown one makes speakeasy throw
HmacDigests == {"sha1", "sha256", "sha512", "md5"}

(* ------------------------------ cipher --------------------------------- *)

Nonces == {"iv1", "iv2"}

\* the string s itself, in the representation shared with envelopes
Plain(s) == [iv |-> "", k |-> "", text |-> s]

\* iv.toString('hex') + ':' + AES-256-CBC(key, iv, text).toString('hex')
Envelope(key, iv, s) == [iv |-> iv, k |-> key, text |-> s]

\* crypto.createCipheriv('aes-256-cbc', Buffer.from(key.slice(0, 64), 'hex'), iv)
\* accepts the key: the hex digits decode to 32 bytes; server-backup.js passes
\* the 32 bytes of a SHA-256 digest
CipherKeyOk(key) == key # "passphrase"

\* encrypt(text) under this key and nonce: throws (ok = FALSE) when the cipher
\* turns the key down
encrypt(key, iv, text) ==
  [ok |-> CipherKeyOk(key), envelope |-> Envelope(key, iv, text)]

\* decrypt(text): throws (ok = FALSE) when the cipher turns the key down, the
\* text is no envelope or it was sealed under another key
decryptWith(key, stored) ==
  IF CipherKeyOk(key) /\ stored.iv # "" /\ stored.k = key
    THEN [ok |-> TRUE, text |-> stored.text]
    ELSE [ok |-> FALSE, text |-> ""]

(* ------------------------------- state --------------------------------- *)

VARIABLES
  variant,         \* which server runs
  env,             \* process.env.ENCRYPTION_KEY, NULL when not configured
  ENCRYPTION_KEY,  \* the process-wide master key
  accounts,        \* the store: sequence of account records, in insertion order
  pc,              \* per client: where its request in flight stands
  local,           \* per client: the request in flight and the document it loaded
  response         \* what the last step sent to its client (NoResponse if nothing)

vars == <<variant, env, ENCRYPTION_KEY, accounts, pc, local, response>>

\* a request body; fields absent from the JSON are NULL / NoNum
NoBody ==
  [key |-> NULL, name |-> NULL, secret |-> NULL, digits |-> NoNum,
   period |-> NoNum, algorithm |-> NULL, type |-> NULL, counter |-> NoNum,
   encrypt |-> NULL]

KeyOnly(k) == [NoBody EXCEPT !.key = k]

NoLocal == [req |-> NoBody, id |-> 0, name |-> NULL]

NoResponse ==
  [op |-> "none", req |-> NoBody, status |-> 0, error |-> "",
   details |-> "", issued |-> {}, entries |-> <<>>, epoch |-> NoNum]

\* res.status(status).json(...): entries are the JSON objects of the body that
\* describe accounts, in the order the handler emits them
ReplyWith(op, req, status, error, details, issued, entries) ==
  [op |-> op, req |-> req, status |-> status, error |-> error,
   details |-> details, issued |-> issued, entries |-> entries, epoch |-> NoNum]

\* the response of a handler that read the clock at this epoch second
At(r, epoch) == [r EXCEPT !.epoch = epoch]

\* a response whose body describes no account
Reply(op, req, status, error, details, issued) ==
  ReplyWith(op, req, status, error, details, issued, <<>>)

(* --------------------------- store helpers ----------------------------- *)

Live(s) == {s[i] : i \in 1..Len(s)}

LiveKeys(s) == {s[i].key : i \in 1..Len(s)}

LiveIds(s) == {s[i].id : i \in 1..Len(s)}

\* a lookup that answers the first record whatever the key
IndexOfKey_First(s, k) == IF Len(s) > 0 THEN 1 ELSE 0

\* index of the first record with this key, 0 when there is none
IndexOfKey(s, k) ==
  IF \E i \in 1..Len(s) : s[i].key = k
    THEN CHOOSE i \in 1..Len(s) : s[i].key = k /\ \A j \in 1..(i-1) : s[j].key # k
    ELSE 0

IndexOfId(s, id) ==
  IF \E i \in 1..Len(s) : s[i].id = id
    THEN CHOOSE i \in 1..Len(s) : s[i].id = id /\ \A j \in 1..(i-1) : s[j].id # id
    ELSE 0

RemoveAt(s, i) == SubSeq(s, 1, i-1) \o SubSeq(s, i+1, Len(s))

\* identity of a new record (_id of a document, identity of a JS object):
\* one that no live record and no request in flight refers to
FreshId ==
  CHOOSE n \in 1..(Len(accounts) + NumProcs + 1) :
    n \notin LiveIds(accounts) \cup {local[p].id : p \in Procs}

\* account.counter || 0
CounterOf(doc) == IF FalsyNum(doc.counter) THEN 0 ELSE doc.counter

(* ------------------- Mongoose schema (models/Account.js) --------------- *)

DefaultDigits == 6

DefaultPeriod == 30

MinDigits == 6

MaxDigits == 8

MinPeriod == 15

MaxPeriod == 60

Algorithms == {"sha1", "sha256", "sha512"}

Types == {"totp", "hotp"}

\* the validators save() runs on the paths of a document
SchemaValid(doc) ==
  /\ ~FalsyStr(doc.key)
  /\ ~FalsyStr(doc.name)
  /\ doc.secret.text # ""
  /\ doc.digits >= MinDigits /\ doc.digits <= MaxDigits
  /\ doc.period >= MinPeriod /\ doc.period <= MaxPeriod
  /\ doc.algorithm \in Algorithms
  /\ doc.type \in Types

\* a collection whose key index is not unique
UniqueIndexAdmits_NoIndex(s, doc) == TRUE

\* the unique index on key: whether the collection admits a new document
UniqueIndexAdmits(s, doc) == doc.key \notin LiveKeys(s)

\* a lookup that never finds the document
findByKey_Null(s, k) == 0

\* Account.findByKey(key): index of the document, 0 for null
findByKey(s, k) == IndexOfKey(s, k)

(* ------------------------- cipher and OTP calls ------------------------ *)

\* shouldEncrypt ? ... : ... on the request's encrypt field: the JSON values
\* true ("true"), false ("false"), the string "false" ("'false'"), or absent;
\* a non-empty string is truthy
Truthy(e) == e \in {"true", "'false'"}

\* encrypted: {type: Boolean} of the schema applied to shouldEncrypt || false:
\* the cast of the value, which takes the string "false" to false
castBoolean(e) == e = "true"

\* shouldEncrypt ? encrypt(secret) : secret
Sealed(shouldEncrypt, key, iv, s) ==
  IF shouldEncrypt THEN Envelope(key, iv, s) ELSE Plain(s)

\* the nonces encrypt() may draw; one value when nothing is encrypted
NoncesFor(shouldEncrypt) == IF shouldEncrypt THEN Nonces ELSE {"iv1"}

\* speakeasy.totp({secret, encoding: 'base32', algorithm}) returns (TRUE) or throws
TotpOk(secret, algorithm) == IsBase32(secret) /\ algorithm \in HmacDigests

\* let secret = account.secret; if (account.encrypted) secret = decrypt(secret)
Opened(key, doc) ==
  IF doc.encrypted THEN decryptWith(key, doc.secret)
  ELSE [ok |-> doc.secret.iv = "", text |-> doc.secret.text]

\* the try block of the code handlers of server.js: decrypt, then speakeasy.totp
\* with the account's algorithm ('sha1' in the in-memory handlers)
CodeOk(key, doc, algorithm) ==
  LET o == Opened(key, doc) IN o.ok /\ TotpOk(o.text, algorithm)

\* the epoch seconds at which a request may be served
Epochs == {59, 60, 61}

\* the Number NaN
NaN == -1000

\* a % b of JavaScript for a >= 0: NaN when b is 0, the sign of a otherwise
Rem(a, b) == IF b = 0 THEN NaN ELSE IF b > 0 THEN a % b ELSE a % (-b)

\* period - (epoch % period)
timeRemaining(period, epoch) ==
  IF Rem(epoch, period) = NaN THEN NaN ELSE period - Rem(epoch, period)

\* speakeasy.hotp: the code as a term over what it is computed from; digits
\* defaults to 6
Hotp(secret, algorithm, digits, counter) ==
  [secret |-> secret, algorithm |-> algorithm,
   digits |-> IF FalsyNum(digits) THEN 6 ELSE digits, counter |-> counter]

\* speakeasy.totp: hotp at counter floor(time / step), step defaults to 30
Totp(secret, algorithm, digits, step, epoch) ==
  LET st == IF FalsyNum(step) THEN 30 ELSE step IN
    Hotp(secret, algorithm, digits,
         IF st > 0 THEN epoch \div st ELSE -((epoch + (-st) - 1) \div (-st)))

(* ----------------------- server.js, MongoDB handlers ------------------- *)

\* new Account({...}) of POST /api/accounts, with the schema's lowercase setters
NewAccount(body, id, key, iv) ==
  [id |-> id,
   key |-> body.key,
   name |-> IF FalsyStr(body.name) THEN body.key ELSE body.name,
   secret |-> Sealed(Truthy(body.encrypt), key, iv, body.secret),
   encrypted |-> castBoolean(body.encrypt),
   digits |-> IF FalsyNum(body.digits) THEN DefaultDigits ELSE body.digits,
   period |-> IF FalsyNum(body.period) THEN DefaultPeriod ELSE body.period,
   algorithm |-> toLowerCase(IF FalsyStr(body.algorithm) THEN "sha1" ELSE body.algorithm),
   type |-> toLowerCase(IF FalsyStr(body.type) THEN "totp" ELSE body.type),
   counter |-> IF FalsyNum(body.counter) THEN 0 ELSE body.counter]

\* POST /api/accounts up to the call of save(): required fields, existence
\* check, validation of the secret
MongoCreateCheck(p, body) ==
  /\ variant = "mongo"
  /\ pc[p] = "idle"
  /\ IF FalsyStr(body.key) \/ FalsyStr(body.secret)
       THEN /\ response' = Reply("create", body, 400, "key and secret are required", "", {})
            /\ UNCHANGED <<pc, local>>
     ELSE IF findByKey(accounts, body.key) # 0
       THEN /\ response' = Reply("create", body, 409, "Account already exists", "", {})
            /\ UNCHANGED <<pc, local>>
     ELSE IF ~TotpOk(body.secret,
                     toLowerCase(IF FalsyStr(body.algorithm) THEN "sha1" ELSE body.algorithm))
       THEN /\ response' = Reply("create", body, 400, "Invalid secret key", "", {})
            /\ UNCHANGED <<pc, local>>
     ELSE /\ pc' = [pc EXCEPT ![p] = "create_save"]
          /\ local' = [local EXCEPT ![p] = [req |-> body, id |-> 0, name |-> NULL]]
          /\ response' = NoResponse
  /\ UNCHANGED <<variant, env, ENCRYPTION_KEY, accounts>>

\* await newAccount.save() and the response that follows it
MongoCreateSave(p) ==
  /\ variant = "mongo"
  /\ pc[p] = "create_save"
  /\ \E iv \in NoncesFor(Truthy(local[p].req.encrypt)) :
       LET body == local[p].req
           doc == NewAccount(body, FreshId, ENCRYPTION_KEY, iv)
       IN  IF Truthy(body.encrypt) /\ ~CipherKeyOk(ENCRYPTION_KEY)
             THEN /\ response' = Reply("create", body, 500, "Server error", "Invalid key length", {})
                  /\ UNCHANGED accounts
           ELSE IF ~SchemaValid(doc)
             THEN /\ response' = Reply("create", body, 500, "Server error", "ValidationError", {})
                  /\ UNCHANGED accounts
           ELSE IF ~UniqueIndexAdmits(accounts, doc)
             THEN /\ response' = Reply("create", body, 500, "Server error", "E11000 duplicate key", {})
                  /\ UNCHANGED accounts
           ELSE /\ accounts' = Append(accounts, doc)
                /\ response' = ReplyWith("create", body, 201, "", "", {},
                     <<[key |-> doc.key, name |-> doc.name, algorithm |-> doc.algorithm]>>)
  /\ pc' = [pc EXCEPT ![p] = "idle"]
  /\ local' = [local EXCEPT ![p] = NoLocal]
  /\ UNCHANGED <<variant, env, ENCRYPTION_KEY>>

\* PUT /api/accounts/:key up to the call of save()
MongoUpdateFind(p, body) ==
  /\ variant = "mongo"
  /\ pc[p] = "idle"
  /\ LET i == findByKey(accounts, body.key) IN
       IF i = 0
         THEN /\ response' = Reply("update", body, 404, "Account not found", "", {})
              /\ UNCHANGED <<pc, local>>
         ELSE /\ pc' = [pc EXCEPT ![p] = "update_save"]
              /\ local' = [local EXCEPT ![p] =
                   [req |-> body, id |-> accounts[i].id, name |-> accounts[i].name]]
              /\ response' = NoResponse
  /\ UNCHANGED <<variant, env, ENCRYPTION_KEY, accounts>>

\* the assignments of PUT /api/accounts/:key applied to the loaded document
Updated(doc, body, key, iv) ==
  [doc EXCEPT
    !.name = IF FalsyStr(body.name) THEN @ ELSE body.name,
    !.digits = IF FalsyNum(body.digits) THEN @ ELSE body.digits,
    !.period = IF FalsyNum(body.period) THEN @ ELSE body.period,
    !.algorithm = IF FalsyStr(body.algorithm) THEN @ ELSE toLowerCase(body.algorithm),
    !.secret = IF FalsyStr(body.secret) THEN @
               ELSE Sealed(Truthy(body.encrypt), key, iv, body.secret),
    !.encrypted = IF FalsyStr(body.secret) THEN @ ELSE castBoolean(body.encrypt)]

\* a save() that writes the document without validating it first
Saved_Unvalidated(s, i, doc) == [s EXCEPT ![i] = doc]

\* the collection after document.save() on the document at index i: the
\* validators run first, and a document that fails them is not written
Saved(s, i, doc) == IF SchemaValid(doc) THEN [s EXCEPT ![i] = doc] ELSE s

\* await account.save() of PUT and the response that follows it: save()
\* validates, then writes the modified paths to the document with the loaded
\* _id; when that document is gone, Mongoose either throws
\* DocumentNotFoundError or writes nothing and resolves, by its version
MongoUpdateSave(p) ==
  /\ variant = "mongo"
  /\ pc[p] = "update_save"
  /\ LET body == local[p].req
         i == IndexOfId(accounts, local[p].id)
     IN  IF ~FalsyStr(body.secret) /\ Truthy(body.encrypt) /\ ~CipherKeyOk(ENCRYPTION_KEY)
           THEN /\ response' = Reply("update", body, 500, "Server error", "Invalid key length", {})
                /\ UNCHANGED accounts
         ELSE IF i = 0
           THEN /\ \/ response' = Reply("update", body, 500, "Server error", "DocumentNotFoundError", {})
                   \/ response' = ReplyWith("update", body, 200, "", "", {},
                        <<[key |-> body.key,
                           name |-> IF FalsyStr(body.name) THEN local[p].name ELSE body.name]>>)
                /\ UNCHANGED accounts
         ELSE \E iv \in NoncesFor(~FalsyStr(body.secret) /\ Truthy(body.encrypt)) :
           LET doc == Updated(accounts[i], body, ENCRYPTION_KEY, iv) IN
             /\ accounts' = Saved(accounts, i, doc)
             /\ response' = IF SchemaValid(doc)
                  THEN ReplyWith("update", body, 200, "", "", {},
                         <<[key |-> doc.key, name |-> doc.name]>>)
                  ELSE Reply("update", body, 500, "Server error", "ValidationError", {})
  /\ pc' = [pc EXCEPT ![p] = "idle"]
  /\ local' = [local EXCEPT ![p] = NoLocal]
  /\ UNCHANGED <<variant, env, ENCRYPTION_KEY>>

\* DELETE /api/accounts/:key: Account.findOneAndDelete({key}) is one database
\* operation
MongoDelete(p, k) ==
  /\ variant = "mongo"
  /\ pc[p] = "idle"
  /\ LET i == findByKey(accounts, k) IN
       IF i = 0
         THEN /\ response' = Reply("delete", KeyOnly(k), 404, "Account not found", "", {})
              /\ UNCHANGED accounts
         ELSE /\ accounts' = RemoveAt(accounts, i)
              /\ response' = ReplyWith("delete", KeyOnly(k), 200, "", "", {}, <<[key |-> k]>>)
  /\ UNCHANGED <<variant, env, ENCRYPTION_KEY, pc, local>>

\* the body of GET /api/code/:accountKey for a document whose secret opened
\* to text
MongoCodeEntry(d, text, epoch) ==
  [account |-> IF FalsyStr(d.name) THEN d.key ELSE d.name,
   code |-> Totp(text, d.algorithm, d.digits, d.period, epoch),
   algorithm |-> d.algorithm,
   timeRemaining |-> timeRemaining(d.period, epoch)]

\* an entry of GET /api/codes whose error branch names no account
MongoCodesEntry_NoKey(key, d, epoch) ==
  IF CodeOk(key, d, d.algorithm)
    THEN [key |-> d.key, name |-> d.name,
          code |-> Totp(Opened(key, d).text, d.algorithm, d.digits, d.period, epoch),
          algorithm |-> d.algorithm,
          timeRemaining |-> timeRemaining(d.period, epoch)]
    ELSE [error |-> "Failed to generate code"]

\* the entry of GET /api/codes for a document: the code, or the error of the
\* inner catch
MongoCodesEntry(key, d, epoch) ==
  IF CodeOk(key, d, d.algorithm)
    THEN [key |-> d.key, name |-> d.name,
          code |-> Totp(Opened(key, d).text, d.algorithm, d.digits, d.period, epoch),
          algorithm |-> d.algorithm,
          timeRemaining |-> timeRemaining(d.period, epoch)]
    ELSE [key |-> d.key, name |-> d.name, error |-> "Failed to generate code"]

\* a summary that copies the stored secret too
MongoSummary_WithSecret(d) ==
  [key |-> d.key, name |-> d.name, digits |-> d.digits, period |-> d.period,
   algorithm |-> d.algorithm, type |-> d.type, encrypted |-> d.encrypted,
   secret |-> d.secret.text]

\* the summary of GET /api/accounts for a document read with '-secret'
MongoSummary(d) ==
  [key |-> d.key, name |-> d.name, digits |-> d.digits, period |-> d.period,
   algorithm |-> d.algorithm, type |-> d.type, encrypted |-> d.encrypted]

\* availableAccounts of the 404 body
KeyEntry(d) == [key |-> d.key]

\* GET /api/code/:accountKey: the lookup and, when the account exists, the code
MongoCode(p, k, epoch) ==
  /\ variant = "mongo"
  /\ pc[p] = "idle"
  /\ LET i == findByKey(accounts, k) IN
       IF i = 0
         THEN /\ pc' = [pc EXCEPT ![p] = "code_list"]
              /\ local' = [local EXCEPT ![p] = [req |-> KeyOnly(k), id |-> 0, name |-> NULL]]
              /\ response' = NoResponse
       ELSE IF CodeOk(ENCRYPTION_KEY, accounts[i], accounts[i].algorithm)
         THEN /\ response' = At(ReplyWith("code", KeyOnly(k), 200, "", "", {accounts[i].id},
                   <<MongoCodeEntry(accounts[i], Opened(ENCRYPTION_KEY, accounts[i]).text, epoch)>>),
                   epoch)
              /\ UNCHANGED <<pc, local>>
         ELSE /\ response' = Reply("code", KeyOnly(k), 500, "Failed to generate code", "", {})
              /\ UNCHANGED <<pc, local>>
  /\ UNCHANGED <<variant, env, ENCRYPTION_KEY, accounts>>

\* the 404 branch of GET /api/code/:accountKey: Account.find({}, 'key') and the
\* response
MongoCodeNotFound(p) ==
  /\ variant = "mongo"
  /\ pc[p] = "code_list"
  /\ response' = ReplyWith("code", local[p].req, 404, "Account not found", "", {},
                          [n \in 1..Len(accounts) |-> KeyEntry(accounts[n])])
  /\ pc' = [pc EXCEPT ![p] = "idle"]
  /\ local' = [local EXCEPT ![p] = NoLocal]
  /\ UNCHANGED <<variant, env, ENCRYPTION_KEY, accounts>>

\* GET /api/codes: one entry per document, a code or an error
MongoCodes(p, epoch) ==
  /\ variant = "mongo"
  /\ pc[p] = "idle"
  /\ response' = At(ReplyWith("codes", NoBody, 200, "", "",
       {d.id : d \in {x \in Live(accounts) : CodeOk(ENCRYPTION_KEY, x, x.algorithm)}},
       [i \in 1..Len(accounts) |-> MongoCodesEntry(ENCRYPTION_KEY, accounts[i], epoch)]), epoch)
  /\ UNCHANGED <<variant, env, ENCRYPTION_KEY, accounts, pc, local>>

\* GET /api/accounts
MongoList(p) ==
  /\ variant = "mongo"
  /\ pc[p] = "idle"
  /\ response' = ReplyWith("list", NoBody, 200, "", "", {},
       [i \in 1..Len(accounts) |-> MongoSummary(accounts[i])])
  /\ UNCHANGED <<variant, env, ENCRYPTION_KEY, accounts, pc, local>>

\* GET /health
MongoHealth(p) ==
  /\ variant = "mongo"
  /\ pc[p] = "idle"
  /\ response' = Reply("health", NoBody, 200, "", "", {})
  /\ UNCHANGED <<variant, env, ENCRYPTION_KEY, accounts, pc, local>>

(* ---------------------- server.js, in-memory handlers ------------------ *)

\* the object POST /api/accounts stores under accounts[key]
MemAccount(body, id, key, iv) ==
  [id |-> id,
   key |-> body.key,
   name |-> IF FalsyStr(body.name) THEN body.key ELSE body.name,
   secret |-> Sealed(Truthy(body.encrypt), key, iv, body.secret),
   encrypted |-> Truthy(body.encrypt),
   digits |-> IF FalsyNum(body.digits) THEN DefaultDigits ELSE body.digits,
   period |-> IF FalsyNum(body.period) THEN DefaultPeriod ELSE body.period,
   algorithm |-> NULL,
   type |-> NULL,
   counter |-> NoNum]

\* POST /api/accounts
MemCreate(p, body) ==
  /\ variant = "memory"
  /\ pc[p] = "idle"
  /\ IF FalsyStr(body.key) \/ FalsyStr(body.secret)
       THEN /\ response' = Reply("create", body, 400, "key and secret are required", "", {})
            /\ UNCHANGED accounts
     ELSE IF IndexOfKey(accounts, body.key) # 0
       THEN /\ response' = Reply("create", body, 409, "Account already exists", "", {})
            /\ UNCHANGED accounts
     ELSE IF ~TotpOk(body.secret, "sha1")
       THEN /\ response' = Reply("create", body, 400, "Invalid secret key", "", {})
            /\ UNCHANGED accounts
     ELSE IF Truthy(body.encrypt) /\ ~CipherKeyOk(ENCRYPTION_KEY)
       THEN /\ response' = Reply("create", body, 500, "Server error", "", {})
            /\ UNCHANGED accounts
     ELSE \E iv \in NoncesFor(Truthy(body.encrypt)) :
            LET doc == MemAccount(body, FreshId, ENCRYPTION_KEY, iv) IN
            /\ accounts' = Append(accounts, doc)
            /\ response' = ReplyWith("create", body, 201, "", "", {},
                 <<[key |-> doc.key, name |-> doc.name]>>)
  /\ UNCHANGED <<variant, env, ENCRYPTION_KEY, pc, local>>

\* account.period || 30
PeriodOf(d) == IF FalsyNum(d.period) THEN 30 ELSE d.period

\* the body of GET /api/code/:accountKey for an account whose secret opened
\* to text
MemCodeEntry(d, text, epoch) ==
  [account |-> IF FalsyStr(d.name) THEN d.key ELSE d.name,
   code |-> Totp(text, "sha1", d.digits, d.period, epoch),
   timeRemaining |-> timeRemaining(PeriodOf(d), epoch)]

\* the entry of GET /api/codes for an account
MemCodesEntry(key, d, epoch) ==
  IF CodeOk(key, d, "sha1")
    THEN [key |-> d.key, name |-> IF FalsyStr(d.name) THEN d.key ELSE d.name,
          code |-> Totp(Opened(key, d).text, "sha1", d.digits, d.period, epoch),
          timeRemaining |-> timeRemaining(PeriodOf(d), epoch)]
    ELSE [key |-> d.key, name |-> IF FalsyStr(d.name) THEN d.key ELSE d.name,
          error |-> "Failed to generate code"]

\* the summary of GET /api/accounts for an account
MemSummary(d) ==
  [key |-> d.key, name |-> IF FalsyStr(d.name) THEN d.key ELSE d.name,
   digits |-> IF FalsyNum(d.digits) THEN 6 ELSE d.digits,
   period |-> PeriodOf(d), encrypted |-> d.encrypted]

\* GET /api/code/:accountKey
MemCode(p, k, epoch) ==
  /\ variant = "memory"
  /\ pc[p] = "idle"
  /\ LET i == IndexOfKey(accounts, k) IN
       IF i = 0
         THEN response' = ReplyWith("code", KeyOnly(k), 404, "Account not found", "", {},
                            [n \in 1..Len(accounts) |-> KeyEntry(accounts[n])])
       ELSE IF CodeOk(ENCRYPTION_KEY, accounts[i], "sha1")
         THEN response' = At(ReplyWith("code", KeyOnly(k), 200, "", "", {accounts[i].id},
                <<MemCodeEntry(accounts[i], Opened(ENCRYPTION_KEY, accounts[i]).text, epoch)>>),
                epoch)
         ELSE response' = Reply("code", KeyOnly(k), 500, "Failed to generate code", "", {})
  /\ UNCHANGED <<variant, env, ENCRYPTION_KEY, accounts, pc, local>>

\* GET /api/codes
MemCodes(p, epoch) ==
  /\ variant = "memory"
  /\ pc[p] = "idle"
  /\ response' = At(ReplyWith("codes", NoBody, 200, "", "",
       {d.id : d \in {x \in Live(accounts) : CodeOk(ENCRYPTION_KEY, x, "sha1")}},
       [i \in 1..Len(accounts) |-> MemCodesEntry(ENCRYPTION_KEY, accounts[i], epoch)]), epoch)
  /\ UNCHANGED <<variant, env, ENCRYPTION_KEY, accounts, pc, local>>

\* GET /api/accounts
MemList(p) ==
  /\ variant = "memory"
  /\ pc[p] = "idle"
  /\ response' = ReplyWith("list", NoBody, 200, "", "", {},
       [i \in 1..Len(accounts) |-> MemSummary(accounts[i])])
  /\ UNCHANGED <<variant, env, ENCRYPTION_KEY, accounts, pc, local>>

\* DELETE /api/accounts/:key
MemDelete(p, k) ==
  /\ variant = "memory"
  /\ pc[p] = "idle"
  /\ LET i == IndexOfKey(accounts, k) IN
       IF i = 0
         THEN /\ response' = Reply("delete", KeyOnly(k), 404, "Account not found", "", {})
              /\ UNCHANGED accounts
         ELSE /\ accounts' = RemoveAt(accounts, i)
              /\ response' = ReplyWith("delete", KeyOnly(k), 200, "", "", {}, <<[key |-> k]>>)
  /\ UNCHANGED <<variant, env, ENCRYPTION_KEY, pc, local>>

\* GET /health
MemHealth(p) ==
  /\ variant = "memory"
  /\ pc[p] = "idle"
  /\ response' = Reply("health", NoBody, 200, "", "", {})
  /\ UNCHANGED <<variant, env, ENCRYPTION_KEY, accounts, pc, local>>

(* -------------------- server-backup.js, in-memory handlers ------------- *)

\* encrypt: shouldEncrypt = true
BackupShouldEncrypt(body) == body.encrypt # "false"

\* the object POST /api/accounts stores under accounts[key]; the parameters
\* take their defaults only when the field is undefined
BackupAccount(body, id, key, iv) ==
  [id |-> id,
   key |-> body.key,
   name |-> IF FalsyStr(body.name) THEN body.key ELSE body.name,
   secret |-> Sealed(BackupShouldEncrypt(body), key, iv, normalizeBase32(body.secret)),
   encrypted |-> BackupShouldEncrypt(body),
   digits |-> IF body.digits = NoNum THEN DefaultDigits ELSE body.digits,
   period |-> IF body.period = NoNum THEN DefaultPeriod ELSE body.period,
   algorithm |-> toLowerCase(IF body.algorithm = NULL THEN "sha256" ELSE body.algorithm),
   type |-> IF body.type = NULL THEN "totp" ELSE body.type,
   counter |-> NoNum]

\* POST /api/accounts; a throw of the unguarded speakeasy.totp call reaches
\* Express's error handler, which answers 500
BackupCreate(p, body) ==
  /\ variant = "backup"
  /\ pc[p] = "idle"
  /\ IF FalsyStr(body.key) \/ FalsyStr(body.secret)
       THEN /\ response' = Reply("create", body, 400, "key and secret required", "", {})
            /\ UNCHANGED accounts
     ELSE IF IndexOfKey(accounts, body.key) # 0
       THEN /\ response' = Reply("create", body, 409, "Account exists", "", {})
            /\ UNCHANGED accounts
     ELSE IF ~TotpOk(normalizeBase32(body.secret), "sha1")
       THEN /\ response' = Reply("create", body, 500, "Internal Server Error", "uncaught", {})
            /\ UNCHANGED accounts
     ELSE \E iv \in NoncesFor(BackupShouldEncrypt(body)) :
            /\ accounts' = Append(accounts, BackupAccount(body, FreshId, ENCRYPTION_KEY, iv))
            /\ response' = ReplyWith("create", body, 201, "", "", {}, <<[key |-> body.key]>>)
  /\ UNCHANGED <<variant, env, ENCRYPTION_KEY, pc, local>>

\* a generateOTP that advances the counter whatever the account's type
generateOTP_NoTypeCheck(key, account) ==
  LET o == Opened(key, account)
      secret == normalizeBase32(o.text)
  IN  IF o.ok /\ IsBase32(secret)
        THEN [ok |-> TRUE, account |-> [account EXCEPT !.counter = CounterOf(account) + 1]]
        ELSE [ok |-> FALSE, account |-> account]

\* generateOTP(account): whether it returns (ok) and the account it leaves;
\* the HOTP branch advances the counter after speakeasy.hotp returned
generateOTP(key, account) ==
  LET o == Opened(key, account)
      secret == normalizeBase32(o.text)
  IN  IF ~o.ok THEN [ok |-> FALSE, account |-> account]
      ELSE IF account.type = "hotp"
        THEN IF IsBase32(secret)
               THEN [ok |-> TRUE,
                     account |-> [account EXCEPT !.counter = CounterOf(account) + 1]]
               ELSE [ok |-> FALSE, account |-> account]
      ELSE [ok |-> TotpOk(secret, IF FalsyStr(account.algorithm) THEN "sha256"
                                  ELSE account.algorithm),
            account |-> account]

\* the object generateOTP(account) returns when it returns, for the secret
\* already opened and normalized
OtpResult(account, secret, epoch) ==
  IF account.type = "hotp"
    THEN [code |-> Hotp(secret, "sha1", account.digits, CounterOf(account)),
          type |-> "hotp"]
    ELSE [code |-> Totp(secret,
                        IF FalsyStr(account.algorithm) THEN "sha256" ELSE account.algorithm,
                        account.digits, account.period, epoch),
          type |-> "totp",
          timeRemaining |-> timeRemaining(account.period, epoch)]

\* { ...a, ...b }
Spread(a, b) ==
  [f \in DOMAIN a \cup DOMAIN b |-> IF f \in DOMAIN b THEN b[f] ELSE a[f]]

\* the entry of GET /api/codes for an account: { key, name, ...generateOTP(acc) }
\* or the entry of the catch
BackupCodesEntry(key, d, epoch) ==
  IF generateOTP(key, d).ok
    THEN Spread([key |-> d.key, name |-> d.name],
                OtpResult(d, normalizeBase32(Opened(key, d).text), epoch))
    ELSE [key |-> d.key, name |-> d.name, error |-> "FAILED"]

\* the summary of GET /api/accounts for an account
BackupSummary(d) ==
  [key |-> d.key, name |-> d.name, type |-> d.type, digits |-> d.digits,
   period |-> d.period]

\* the counter stays within the bound of the model
CounterRoom(account) == account.type = "hotp" => CounterOf(account) < MaxCounter

\* GET /api/code/:key
BackupCode(p, k, epoch) ==
  /\ variant = "backup"
  /\ pc[p] = "idle"
  /\ LET i == IndexOfKey(accounts, k) IN
       IF i = 0
         THEN /\ response' = ReplyWith("code", KeyOnly(k), 404, "Account not found", "", {},
                                 [n \in 1..Len(accounts) |-> KeyEntry(accounts[n])])
              /\ UNCHANGED accounts
         ELSE LET r == generateOTP(ENCRYPTION_KEY, accounts[i]) IN
              /\ CounterRoom(accounts[i])
              /\ accounts' = [accounts EXCEPT ![i] = r.account]
              /\ response' = IF r.ok
                   THEN At(ReplyWith("code", KeyOnly(k), 200, "", "", {accounts[i].id},
                          <<Spread([account |-> accounts[i].name],
                                   OtpResult(accounts[i],
                                     normalizeBase32(Opened(ENCRYPTION_KEY, accounts[i]).text),
                                     epoch))>>), epoch)
                   ELSE Reply("code", KeyOnly(k), 500, "OTP generation failed", "", {})
  /\ UNCHANGED <<variant, env, ENCRYPTION_KEY, pc, local>>

\* GET /api/codes: generateOTP on every account, each in its own try
BackupCodes(p, epoch) ==
  /\ variant = "backup"
  /\ pc[p] = "idle"
  /\ \A i \in 1..Len(accounts) : CounterRoom(accounts[i])
  /\ accounts' = [i \in 1..Len(accounts) |-> generateOTP(ENCRYPTION_KEY, accounts[i]).account]
  /\ response' = At(ReplyWith("codes", NoBody, 200, "", "",
       {d.id : d \in {x \in Live(accounts) : generateOTP(ENCRYPTION_KEY, x).ok}},
       [i \in 1..Len(accounts) |-> BackupCodesEntry(ENCRYPTION_KEY, accounts[i], epoch)]), epoch)
  /\ UNCHANGED <<variant, env, ENCRYPTION_KEY, pc, local>>

\* GET /api/debug/:key: the secret is opened, then generateOTP runs; a throw
\* of either reaches Express's error handler
BackupDebug(p, k, epoch) ==
  /\ variant = "backup"
  /\ pc[p] = "idle"
  /\ LET i == IndexOfKey(accounts, k) IN
       IF i = 0
         THEN /\ response' = Reply("debug", KeyOnly(k), 404, "Not found", "", {})
              /\ UNCHANGED accounts
         ELSE LET r == generateOTP(ENCRYPTION_KEY, accounts[i]) IN
              /\ CounterRoom(accounts[i])
              /\ accounts' = [accounts EXCEPT ![i] = r.account]
              /\ response' = IF r.ok
                   THEN At(ReplyWith("debug", KeyOnly(k), 200, "", "", {accounts[i].id},
                          <<[normalizedSecret |->
                               normalizeBase32(Opened(ENCRYPTION_KEY, accounts[i]).text),
                             otp |-> OtpResult(accounts[i],
                               normalizeBase32(Opened(ENCRYPTION_KEY, accounts[i]).text),
                               epoch)]>>), epoch)
                   ELSE Reply("debug", KeyOnly(k), 500, "Internal Server Error", "uncaught", {})
  /\ UNCHANGED <<variant, env, ENCRYPTION_KEY, pc, local>>

\* GET /api/accounts
BackupList(p) ==
  /\ variant = "backup"
  /\ pc[p] = "idle"
  /\ response' = ReplyWith("list", NoBody, 200, "", "", {},
       [i \in 1..Len(accounts) |-> BackupSummary(accounts[i])])
  /\ UNCHANGED <<variant, env, ENCRYPTION_KEY, accounts, pc, local>>

\* DELETE /api/accounts/:key: delete accounts[key], whether or not it exists
BackupDelete(p, k) ==
  /\ variant = "backup"
  /\ pc[p] = "idle"
  /\ LET i == IndexOfKey(accounts, k) IN
       accounts' = IF i = 0 THEN accounts ELSE RemoveAt(accounts, i)
  /\ response' = ReplyWith("delete", KeyOnly(k), 200, "", "", {}, <<[deleted |-> k]>>)
  /\ UNCHANGED <<variant, env, ENCRYPTION_KEY, pc, local>>

\* GET /health
BackupHealth(p) ==
  /\ variant = "backup"
  /\ pc[p] = "idle"
  /\ response' = Reply("health", NoBody, 200, "", "", {})
  /\ UNCHANGED <<variant, env, ENCRYPTION_KEY, accounts, pc, local>>

(* --------- server-backup.js, OTP-URI parser and POST /api/extract-secret -- *)

\* the characters of a raw label: a letter, a colon and an encoded colon
LabelChars == {"a", ":", "%3A"}

\* a string as the sequence of its characters
Labels == UNION {[1..n -> LabelChars] : n \in 0..MaxLabelLen}

\* a query parameter that is absent: params.get(...) is null
NoParam == [present |-> FALSE, chars |-> <<>>]

\* a query parameter with this value
Param(chars) == [present |-> TRUE, chars |-> chars]

\* decodeURIComponent: an encoded colon becomes a colon, a stray percent sign
\* throws URIError (ok = FALSE)
decodeURIComponent(raw) ==
  [ok |-> \A i \in 1..Len(raw) : raw[i] # "%",
   chars |-> [i \in 1..Len(raw) |-> IF raw[i] = "%3A" THEN ":" ELSE raw[i]]]

\* label.includes(":")
includes(chars, c) == \E i \in 1..Len(chars) : chars[i] = c

RECURSIVE split(_, _)
\* label.split(":"): the pieces between the separators, at least one
split(chars, sep) ==
  IF ~includes(chars, sep) THEN <<chars>>
  ELSE LET i == CHOOSE j \in 1..Len(chars) :
                  chars[j] = sep /\ \A h \in 1..(j-1) : chars[h] # sep
       IN  <<SubSeq(chars, 1, i-1)>> \o split(SubSeq(chars, i+1, Len(chars)), sep)

\* Number(text) on the parameter values of the model
Number(text) ==
  CASE text = "6" -> 6
    [] text = "8" -> 8
    [] text = "30" -> 30
    [] OTHER -> NaN

\* the provisioning URIs scanned: scheme, host, raw label and the query
\* parameters secret and issuer, the other parameters absent
Uris ==
  [scheme : {"otpauth://", "https://"},
   host : {"totp", "HOTP"},
   label : Labels,
   secret : {NULL, S1},
   issuer : {NoParam, Param(<<"c">>)},
   algorithm : {NULL},
   digits : {NULL}]

\* parseOTPAuth(url): ok = FALSE when it throws, with the message
parseOTPAuth(url) ==
  LET decoded == decodeURIComponent(url.label)
      label == decoded.chars
  IN  IF url.scheme # "otpauth://"
        THEN [ok |-> FALSE, message |-> "Invalid OTP Auth URL"]
      ELSE IF ~decoded.ok
        THEN [ok |-> FALSE, message |-> "URI malformed"]
      ELSE IF FalsyStr(url.secret)
        THEN [ok |-> FALSE, message |-> "Secret not found"]
      ELSE [ok |-> TRUE,
            secret |-> url.secret,
            issuer |-> IF url.issuer.present /\ url.issuer.chars # <<>>
                         THEN url.issuer
                         ELSE Param(split(label, ":")[1]),
            accountName |-> IF includes(label, ":")
                              THEN split(label, ":")[2]
                              ELSE label,
            type |-> toLowerCase(url.host),
            algorithm |-> toLowerCase(IF FalsyStr(url.algorithm) THEN "SHA1" ELSE url.algorithm),
            digits |-> Number(IF FalsyStr(url.digits) THEN "6" ELSE url.digits),
            period |-> Number("30"),
            counter |-> NULL,
            otpAuthUrl |-> url]

\* the images posted: none, one without a QR code, one whose QR code holds
\* this text
Images ==
  {[kind |-> "missing", data |-> <<>>], [kind |-> "blank", data |-> <<>>]}
    \cup {[kind |-> "qr", data |-> <<u>>] : u \in Uris}

\* POST /api/extract-secret
ExtractSecret(p, image) ==
  /\ variant = "mongo"
  /\ pc[p] = "idle"
  /\ response' =
       IF image.kind = "missing"
         THEN Reply("extract", NoBody, 400, "Invalid or missing base64 image", "", {})
       ELSE IF image.kind = "blank"
         THEN Reply("extract", NoBody, 422, "No QR code found", "", {})
       ELSE LET parsed == parseOTPAuth(image.data[1]) IN
         IF parsed.ok
           THEN ReplyWith("extract", NoBody, 200, "", "", {}, <<parsed>>)
           ELSE Reply("extract", NoBody, 500, parsed.message, "", {})
  /\ UNCHANGED <<variant, env, ENCRYPTION_KEY, accounts, pc, local>>

(* ------------------------------ requests ------------------------------- *)

\* the plain creation request for a key
BaseBody(k) == [KeyOnly(k) EXCEPT !.secret = S1]

\* creation requests: the plain request for each key, for key "a" the requests
\* that differ from it in one field, and a request without key
CreateBodies ==
  {BaseBody(k) : k \in Keys}
    \cup {[BaseBody("a") EXCEPT !.secret = x] : x \in {NULL, SLOW, BAD}}
    \cup {[BaseBody("a") EXCEPT !.digits = x] : x \in {0, 9}}
    \cup {[BaseBody("a") EXCEPT !.period = x] : x \in {10, 0, -5}}
    \cup {[BaseBody("a") EXCEPT !.algorithm = x] : x \in {"SHA256", "md5", "rot13"}}
    \cup {[BaseBody("a") EXCEPT !.type = x] : x \in {"hotp", "foo"}}
    \cup {[BaseBody("a") EXCEPT !.counter = x] : x \in {2}}
    \cup {[BaseBody("a") EXCEPT !.encrypt = x] : x \in {"true", "false", "'false'"}}
    \cup {[NoBody EXCEPT !.secret = S1]}

\* update requests: the empty update for each key and, for key "a", one field
\* or a new secret with the encrypt flag
UpdateBodies ==
  {KeyOnly(k) : k \in Keys}
    \cup {[KeyOnly("a") EXCEPT !.secret = x] : x \in {S2, BAD}}
    \cup {[KeyOnly("a") EXCEPT !.secret = S2, !.encrypt = x] : x \in {"true", "'false'"}}
    \cup {[KeyOnly("a") EXCEPT !.digits = x] : x \in {0, 7, 9}}
    \cup {[KeyOnly("a") EXCEPT !.period = x] : x \in {10}}
    \cup {[KeyOnly("a") EXCEPT !.algorithm = x] : x \in {"md5"}}
    \cup {[KeyOnly("a") EXCEPT !.type = x] : x \in {"foo"}}

\* the requests of clients that run concurrently
ConcurrentCreateBodies == {BaseBody(k) : k \in Keys}

ConcurrentUpdateBodies ==
  {[KeyOnly("a") EXCEPT !.digits = 7], [KeyOnly("a") EXCEPT !.digits = 9]}

ConcurrentEpochs == {60}

(* ---------------------------- specification ---------------------------- *)

\* the values of process.env.ENCRYPTION_KEY: not set, 64 hex digits ("seed"),
\* or any other text
Seeds == {NULL, "seed", "passphrase"}

\* the values crypto.randomBytes(32).toString('hex') may draw
Randoms == {"random1", "random2"}

\* const ENCRYPTION_KEY = ...: the configured seed, or without one a random
\* key (server.js); the hash of the seed or of 'dev-secret' (server-backup.js)
MasterKeys(v, e) ==
  IF v = "backup"
    THEN {CASE e = NULL -> "sha256(dev-secret)"
            [] e = "seed" -> "sha256(seed)"
            [] OTHER -> "sha256(passphrase)"}
    ELSE IF e = NULL THEN Randoms ELSE {e}

Init ==
  /\ variant \in Variants
  /\ env \in Seeds
  /\ ENCRYPTION_KEY \in MasterKeys(variant, env)
  /\ accounts = <<>>
  /\ pc = [p \in Procs |-> "idle"]
  /\ local = [p \in Procs |-> NoLocal]
  /\ response = NoResponse

\* a step of client p in a handler that looks one key up: create, update,
\* delete and single-code issuance, the creation and update requests drawn
\* from the given sets
KeyStep(p, creates, updates, epochs) ==
  \/ \E body \in creates : MongoCreateCheck(p, body)
  \/ MongoCreateSave(p)
  \/ \E body \in updates : MongoUpdateFind(p, body)
  \/ MongoUpdateSave(p)
  \/ \E k \in Keys : MongoDelete(p, k)
  \/ \E k \in Keys, epoch \in epochs : MongoCode(p, k, epoch)
  \/ MongoCodeNotFound(p)
  \/ \E body \in creates : MemCreate(p, body)
  \/ \E k \in Keys, epoch \in epochs : MemCode(p, k, epoch)
  \/ \E k \in Keys : MemDelete(p, k)
  \/ \E body \in creates : BackupCreate(p, body)
  \/ \E k \in Keys, epoch \in epochs : BackupCode(p, k, epoch)
  \/ \E k \in Keys : BackupDelete(p, k)

\* a step of client p in one of the other handlers
OtherStep(p) ==
  \/ \E epoch \in Epochs : MongoCodes(p, epoch)
  \/ MongoList(p)
  \/ MongoHealth(p)
  \/ \E epoch \in Epochs : MemCodes(p, epoch)
  \/ MemList(p)
  \/ MemHealth(p)
  \/ \E epoch \in Epochs : BackupCodes(p, epoch)
  \/ \E k \in Keys, epoch \in Epochs : BackupDebug(p, k, epoch)
  \/ BackupList(p)
  \/ BackupHealth(p)

\* one client, every handler and every request of the menus, each request
\* answered before the next is sent
Next == KeyStep(1, CreateBodies, UpdateBodies, Epochs) \/ OtherStep(1)

\* a start with ENCRYPTION_KEY set in the environment; within one run a
\* random key acts as a configured key of 64 hex digits does
InitConfigured == Init /\ env # NULL

Spec == InitConfigured /\ [][Next]_vars

\* NumProcs clients whose create, update, delete and code requests interleave
\* at the awaited database operations
NextConcurrent ==
  \E p \in Procs :
    KeyStep(p, ConcurrentCreateBodies, ConcurrentUpdateBodies, ConcurrentEpochs)

SpecConcurrent == InitConfigured /\ [][NextConcurrent]_vars

\* the MongoDB server alone, one client
NextMongo ==
  \/ \E body \in CreateBodies : MongoCreateCheck(1, body)
  \/ MongoCreateSave(1)
  \/ \E body \in UpdateBodies : MongoUpdateFind(1, body)
  \/ MongoUpdateSave(1)
  \/ \E k \in Keys : MongoDelete(1, k)
  \/ \E k \in Keys, epoch \in Epochs : MongoCode(1, k, epoch)
  \/ MongoCodeNotFound(1)
  \/ \E epoch \in Epochs : MongoCodes(1, epoch)
  \/ MongoList(1)
  \/ MongoHealth(1)

InitMongo == InitConfigured /\ variant = "mongo"

SpecMongo == InitMongo /\ [][NextMongo]_vars

\* the process is stopped and started again under the same configuration:
\* the module is loaded anew, the master key is computed anew, requests in
\* flight are lost, and the store survives only in the database
Restart ==
  /\ ENCRYPTION_KEY' \in MasterKeys(variant, env)
  /\ accounts' = IF variant = "mongo" THEN accounts ELSE <<>>
  /\ pc' = [p \in Procs |-> "idle"]
  /\ local' = [p \in Procs |-> NoLocal]
  /\ response' = NoResponse
  /\ UNCHANGED <<variant, env>>

\* creation requests of the runs with restarts: plaintext and encrypted
RestartCreateBodies ==
  {[BaseBody(k) EXCEPT !.encrypt = x] : k \in Keys, x \in {"true", "false"}}

\* one client whose requests are separated by restarts of the process
NextRestart ==
  \/ Restart
  \/ \E body \in RestartCreateBodies : MongoCreateCheck(1, body)
  \/ MongoCreateSave(1)
  \/ \E k \in Keys : MongoDelete(1, k)
  \/ \E k \in Keys, epoch \in Epochs : MongoCode(1, k, epoch)
  \/ MongoCodeNotFound(1)
  \/ \E epoch \in Epochs : MongoCodes(1, epoch)
  \/ \E body \in RestartCreateBodies : MemCreate(1, body)
  \/ \E k \in Keys, epoch \in Epochs : MemCode(1, k, epoch)
  \/ \E body \in RestartCreateBodies : BackupCreate(1, body)
  \/ \E k \in Keys, epoch \in Epochs : BackupCode(1, k, epoch)

SpecRestart == Init /\ [][NextRestart]_vars

\* the secret-extraction endpoint alone, every image of the model posted
NextParser == \E image \in Images : ExtractSecret(1, image)

SpecParser == InitMongo /\ [][NextParser]_vars

(* ------------------------------- claims -------------------------------- *)

\* the save of a creation request completes in this step
CreateSaveCompletes == \E p \in Procs : pc[p] = "create_save" /\ pc'[p] = "idle"

\* the document a creation request would store passes the schema
WellFormed(body) == SchemaValid(NewAccount(body, 0, ENCRYPTION_KEY, "iv1"))

\* C1: the store never holds two live accounts with the same key, whatever
\* the interleaving of the clients' requests.
C1_KeyUnique ==
  \A i, j \in 1..Len(accounts) : i # j => accounts[i].key # accounts[j].key

\* C1 witness: a creation request passed the existence check, another client
\* stored the key meanwhile, and the save was turned down by the unique index.
C1_Witness ==
  /\ response.op = "create"
  /\ response.details = "E11000 duplicate key"
  /\ response.req.key \in LiveKeys(accounts)

\* C2: a creation request that passed the existence check and finds, at its
\* write, the key stored by a concurrent creation fails with DuplicateKey
\* (409) and leaves the stored record as the other request wrote it.
C2_DuplicateAtSaveIs409 ==
  [][\A p \in Procs :
       (/\ pc[p] = "create_save" /\ pc'[p] = "idle"
        /\ WellFormed(local[p].req)
        /\ local[p].req.key \in LiveKeys(accounts))
       => (response'.status = 409 /\ accounts' = accounts)]_vars

\* C3 as stated: a creation request for a key that has a live account fails
\* with DuplicateKey (409) and leaves the store unchanged, whatever fields
\* the request carries.
C3_DuplicateAnyFields ==
  [][(/\ response'.op = "create"
      /\ ~CreateSaveCompletes
      /\ response'.req.key \in LiveKeys(accounts))
     => (response'.status = 409 /\ accounts' = accounts)]_vars

\* C3 amended: a creation request that carries a non-empty secret, for a key
\* that has a live account, is answered with DuplicateKey (409) at its
\* existence check, never passes that check, and leaves every field of every
\* stored record unchanged.
C3_DuplicateWithSecret ==
  [][/\ (/\ response'.op = "create"
         /\ ~CreateSaveCompletes
         /\ ~FalsyStr(response'.req.secret)
         /\ response'.req.key \in LiveKeys(accounts))
        => (response'.status = 409 /\ accounts' = accounts)
     /\ \A p \in Procs :
          (pc[p] = "idle" /\ pc'[p] = "create_save")
            => local'[p].req.key \notin LiveKeys(accounts)]_vars

\* C3 witness: a creation request with a secret and other fields than the
\* stored record's was answered 409 while the key's account is live.
C3_Witness ==
  /\ response.op = "create"
  /\ response.status = 409
  /\ response.req.digits = 9
  /\ \E d \in Live(accounts) : d.key = response.req.key /\ d.digits = DefaultDigits

\* C4: every successful code issuance for an account of type hotp advances
\* that account's stored counter by exactly one.
C4_HotpIssuanceAdvances ==
  [][\A i \in 1..Len(accounts) :
       (accounts[i].type = "hotp" /\ accounts[i].id \in response'.issued)
       => \E j \in 1..Len(accounts') :
            /\ accounts'[j].id = accounts[i].id
            /\ CounterOf(accounts'[j]) = CounterOf(accounts[i]) + 1]_vars

InRange(d) ==
  /\ d.digits >= MinDigits /\ d.digits <= MaxDigits
  /\ d.period >= MinPeriod /\ d.period <= MaxPeriod
  /\ d.algorithm = NULL \/ d.algorithm \in Algorithms
  /\ d.type = NULL \/ d.type \in Types

\* C6: every account in the store has digits in [6,8], period in [15,60],
\* algorithm in {sha1, sha256, sha512} and type in {totp, hotp}.
C6_ParametersInRange == \A d \in Live(accounts) : InRange(d)

\* a request carries a digits, period, algorithm or type value outside the
\* allowed range or set
OutOfRange(body) ==
  \/ body.digits # NoNum /\ (body.digits < MinDigits \/ body.digits > MaxDigits)
  \/ body.period # NoNum /\ (body.period < MinPeriod \/ body.period > MaxPeriod)
  \/ body.algorithm # NULL /\ toLowerCase(body.algorithm) \notin Algorithms
  \/ body.type # NULL /\ toLowerCase(body.type) \notin Types

\* C7: a create or update request that carries an out-of-range digits,
\* period, algorithm or type is answered with InvalidAccountParameters (400),
\* unless its key is taken (create, 409) or absent (update, 404).
C7_OutOfRangeIs400 ==
  (/\ response.op \in {"create", "update"}
   /\ OutOfRange(response.req)
   /\ response.status \notin {404, 409})
    => response.status = 400

\* a response that reports a validation error of a create or update request
ValidationError(r) ==
  /\ r.op \in {"create", "update"}
  /\ \/ r.status = 400
     \/ r.status = 500 /\ r.details \in {"ValidationError", "uncaught"}

\* C8: a create or update request that ends in a validation error leaves the
\* store as it was: the step that answers it changes nothing, and neither
\* does a step of a request that has not answered yet.
C8_ValidationErrorNoWrite ==
  [][(ValidationError(response') \/ response' = NoResponse)
       => accounts' = accounts]_vars

\* C8 witness: an update of a live account was answered with a validation
\* error.
C8_Witness ==
  /\ response.op = "update"
  /\ response.details = "ValidationError"
  /\ response.req.key \in LiveKeys(accounts)

\* C9: the secret of every stored account opens (is decrypted when encrypted
\* is true) to valid base32.
C9_StoredSecretIsBase32 ==
  \A d \in Live(accounts) :
    LET o == Opened(ENCRYPTION_KEY, d) IN o.ok /\ IsBase32(o.text)

\* C10: deleting a key that has no live account fails with AccountNotFound
\* (404) and leaves the store unchanged; deleting a live key removes exactly
\* that account.
C10_DeleteAbsentIs404 ==
  [][response'.op = "delete" =>
       IF response'.req.key \in LiveKeys(accounts)
         THEN /\ response'.status = 200
              /\ Live(accounts') = {d \in Live(accounts) : d.key # response'.req.key}
         ELSE /\ response'.status = 404
              /\ accounts' = accounts]_vars

\* C11: an update or a code-issuance request that looks up a key with no live
\* account is answered with AccountNotFound (404), issues no code and leaves
\* the store as it was: a handler that answers in the step of its lookup
\* answers 404, no update gets past its lookup, and the not-found branch of
\* the code handler is entered only for an absent key and ends in 404.
C11_AbsentIs404 ==
  [][/\ (/\ pc' = pc
         /\ response'.op \in {"update", "code", "debug"}
         /\ response'.req.key \notin LiveKeys(accounts))
        => (/\ response'.status = 404
            /\ response'.issued = {}
            /\ accounts' = accounts)
     /\ \A p \in Procs :
          /\ (pc[p] = "idle" /\ pc'[p] = "update_save")
               => local'[p].req.key \in LiveKeys(accounts)
          /\ (pc[p] = "idle" /\ pc'[p] = "code_list")
               => (local'[p].req.key \notin LiveKeys(accounts) /\ accounts' = accounts)
          /\ (pc[p] = "code_list" /\ pc'[p] = "idle")
               => (/\ response'.op = "code"
                   /\ response'.status = 404
                   /\ response'.issued = {}
                   /\ accounts' = accounts)]_vars

\* C11 witness: an update for an absent key was answered 404 while another
\* account is stored.
C11_Witness ==
  /\ response.op = "update"
  /\ response.status = 404
  /\ response.req.key \notin LiveKeys(accounts)
  /\ Len(accounts) > 0

\* a code can be derived for this account by the running server: its secret
\* opens under the master key and the OTP library accepts it
Issuable(d) ==
  CASE variant = "mongo" -> CodeOk(ENCRYPTION_KEY, d, d.algorithm)
    [] variant = "memory" -> CodeOk(ENCRYPTION_KEY, d, "sha1")
    [] variant = "backup" -> generateOTP(ENCRYPTION_KEY, d).ok

\* C12: the answer to an all-codes request holds exactly one entry per stored
\* account, in store order and carrying the account's key; the entry of an
\* account whose decryption or derivation fails is an error entry, and the
\* entry of every other account carries its code.
C12_BatchPerAccount ==
  [][response'.op = "codes" =>
       /\ response'.status = 200
       /\ Len(response'.entries) = Len(accounts)
       /\ \A i \in 1..Len(accounts) :
            LET e == response'.entries[i] IN
              /\ "key" \in DOMAIN e
              /\ e.key = accounts[i].key
              /\ Issuable(accounts[i]) =>
                   ("code" \in DOMAIN e /\ "error" \notin DOMAIN e)
              /\ ~Issuable(accounts[i]) =>
                   ("error" \in DOMAIN e /\ "code" \notin DOMAIN e)]_vars

\* C12 witness: an all-codes answer with an error entry for one account and
\* a code for another.
C12_Witness ==
  /\ response.op = "codes"
  /\ Len(response.entries) = 2
  /\ \E i, j \in 1..2 :
       /\ "error" \in DOMAIN response.entries[i]
       /\ "code" \in DOMAIN response.entries[j]

\* the fields of a response object that hold strings
StringFields ==
  {"key", "name", "account", "algorithm", "type", "error", "deleted",
   "secret", "normalizedSecret"}

\* the JSON object e holds secret material of account d: a field named secret,
\* or a string field whose value is the stored or the opened secret
Discloses(e, d) ==
  \/ "secret" \in DOMAIN e
  \/ \E f \in DOMAIN e \cap StringFields :
       \/ e[f] = d.secret.text
       \/ e[f] = normalizeBase32(d.secret.text)

\* C13: the answer to a listing request holds one summary per stored account,
\* in store order, and no summary holds the account's secret, stored as
\* plaintext or as an envelope.
C13_ListingOmitsSecret ==
  [][response'.op = "list" =>
       /\ response'.status = 200
       /\ Len(response'.entries) = Len(accounts)
       /\ \A i \in 1..Len(accounts) :
            /\ response'.entries[i].key = accounts[i].key
            /\ \A d \in Live(accounts) : ~Discloses(response'.entries[i], d)]_vars

\* C13 witness: a listing of two accounts, one stored as an envelope and one
\* as plaintext.
C13_Witness ==
  /\ response.op = "list"
  /\ Len(response.entries) = 2
  /\ \E d \in Live(accounts) : d.encrypted
  /\ \E d \in Live(accounts) : ~d.encrypted

\* the objects of a response that may carry a timeRemaining, each with the
\* account it was computed for
Timed(r, s) ==
  IF r.status # 200 THEN {}
  ELSE IF r.op = "code"
    THEN {[d |-> s[IndexOfKey(s, r.req.key)], e |-> r.entries[1]]}
  ELSE IF r.op = "debug"
    THEN {[d |-> s[IndexOfKey(s, r.req.key)], e |-> r.entries[1].otp]}
  ELSE IF r.op = "codes"
    THEN {[d |-> s[i], e |-> r.entries[i]] : i \in 1..Len(s)}
  ELSE {}

\* C14: every timeRemaining of an issuance lies in [1, period] of its account
\* and equals period when the epoch second is divisible by period.
C14_TimeRemainingInRange ==
  [][\A x \in Timed(response', accounts) :
       "timeRemaining" \in DOMAIN x.e =>
         /\ x.d.period >= 1
         /\ x.e.timeRemaining \in 1..x.d.period
         /\ response'.epoch % x.d.period = 0 => x.e.timeRemaining = x.d.period]_vars

\* C15: the master key never changes, neither within a run nor from one start
\* to the next under the same configuration (a seed or none), and so every
\* account stored encrypted still opens.
C15_MasterKeyStable ==
  [][/\ ENCRYPTION_KEY' = ENCRYPTION_KEY
     /\ \A d \in Live(accounts') :
          d.encrypted => Opened(ENCRYPTION_KEY', d).ok]_vars

\* the number of colons of a label
Colons(chars) == Cardinality({i \in 1..Len(chars) : chars[i] = ":"})

\* C16: for a URI the parser accepts, with label the percent-decoded label:
\* when label holds one colon, accountName is the part after it and, absent
\* an issuer parameter, issuer is the part before it; when label holds no
\* colon, accountName is label and issuer is the issuer parameter, undefined
\* when there is none.
C16_LabelSplit ==
  (response.op = "extract" /\ response.status = 200) =>
    LET e == response.entries[1]
        url == e.otpAuthUrl
        label == decodeURIComponent(url.label).chars
        colon == CHOOSE i \in 0..Len(label) : i = 0 \/ label[i] = ":"
    IN  /\ Colons(label) = 1 =>
             /\ e.accountName = SubSeq(label, colon + 1, Len(label))
             /\ ~url.issuer.present => e.issuer = Param(SubSeq(label, 1, colon - 1))
        /\ Colons(label) = 0 =>
             /\ e.accountName = label
             /\ e.issuer = url.issuer

\* C17: under the master key of the process, encrypt returns for every
\* non-empty secret and decrypt of its envelope returns that secret, and every
\* account stored encrypted opens to a secret the OTP library accepts as it
\* does the plaintext.
C17_RoundTrip ==
  /\ \A s \in {S1, S2, SLOW, BAD} : \A iv \in Nonces :
       LET c == encrypt(ENCRYPTION_KEY, iv, s) IN
         /\ c.ok
         /\ decryptWith(ENCRYPTION_KEY, c.envelope) = [ok |-> TRUE, text |-> s]
  /\ \A d \in Live(accounts) :
       d.encrypted =>
         /\ Opened(ENCRYPTION_KEY, d).ok
         /\ Opened(ENCRYPTION_KEY, d).text = d.secret.text

\* the stored secret is a cipher envelope nonce_hex:ciphertext_hex
IsEnvelope(stored) == stored.iv # ""

\* C18: the encrypted flag of every stored account is true exactly when its
\* stored secret is a cipher envelope, and an update that carries no secret
\* leaves both the stored secret and the flag of its account as they were.
C18_FlagMatchesSecretForm ==
  /\ [](\A d \in Live(accounts) : d.encrypted <=> IsEnvelope(d.secret))
  /\ [][\A p \in Procs :
          (pc[p] = "update_save" /\ pc'[p] = "idle" /\ FalsyStr(local[p].req.secret))
            => \A d \in Live(accounts) : \A e \in Live(accounts') :
                 (d.id = local[p].id /\ e.id = d.id)
                   => (e.secret = d.secret /\ e.encrypted = d.encrypted)]_vars

\* C19: no object of any response holds secret material of a stored account,
\* neither the stored form nor the opened or normalised secret.
C19_NoResponseHoldsSecret ==
  \A i \in 1..Len(response.entries) :
    \A d \in Live(accounts) : ~Discloses(response.entries[i], d)

====
